---- MODULE Spec2Model ----
(***************************************************************************)
(* A model of the Canvas calendar generator (ignuslabs/Calendar).          *)
(*                                                                         *)
(* The model follows one run of process_course for one course, in either   *)
(* of the two programs of the repository: canvas_calendar_generator.py     *)
(* (impl = "canvas") and the older single-file syllabus-calendar.py        *)
(* (impl = "syllabus").  Strings are sequences: dates, hours and minutes   *)
(* of one-character strings, so that formatting and parsing are computed,   *)
(* names and texts of words.  Python's None is the one-element sequence     *)
(* None.                                                                    *)
(***************************************************************************)
EXTENDS Integers, Sequences, FiniteSets, TLC

\* ------------------------------------------------------------------ bounds
MaxAssignments == 2
MaxCandidates == 2
MaxFiles == 2
MaxModules == 1
MaxItems == 1
MaxCourses == 2

\* ----------------------------------------------------------------- strings
None == <<"<None>">>

\* Python truthiness of an optional string: None and "" are falsy.
Truthy(s) == s # None /\ s # <<>>

Whitespace == {" ", "\n"}

RECURSIVE LStrip(_)
LStrip(s) == IF s # <<>> /\ Head(s) \in Whitespace THEN LStrip(Tail(s)) ELSE s

RECURSIVE RStrip(_)
RStrip(s) ==
    IF s # <<>> /\ s[Len(s)] \in Whitespace THEN RStrip(SubSeq(s, 1, Len(s) - 1)) ELSE s

\* str.strip()
Strip(s) == LStrip(RStrip(s))

\* sep.join(parts)
RECURSIVE Join(_, _)
Join(sep, parts) ==
    IF parts = <<>> THEN <<>>
    ELSE IF Len(parts) = 1 THEN parts[1]
    ELSE parts[1] \o sep \o Join(sep, Tail(parts))

BlankLine == <<"\n", "\n">>

\* str.endswith(suffix)
EndsWith(s, suffix) ==
    /\ Len(s) >= Len(suffix)
    /\ SubSeq(s, Len(s) - Len(suffix) + 1, Len(s)) = suffix

Digits == {"0", "1", "2", "3", "4", "5", "6", "7", "8", "9"}

DigitVal(c) ==
    CASE c = "0" -> 0 [] c = "1" -> 1 [] c = "2" -> 2 [] c = "3" -> 3 [] c = "4" -> 4
      [] c = "5" -> 5 [] c = "6" -> 6 [] c = "7" -> 7 [] c = "8" -> 8 [] c = "9" -> 9

DigitChar(n) ==
    CASE n = 0 -> "0" [] n = 1 -> "1" [] n = 2 -> "2" [] n = 3 -> "3" [] n = 4 -> "4"
      [] n = 5 -> "5" [] n = 6 -> "6" [] n = 7 -> "7" [] n = 8 -> "8" [] n = 9 -> "9"

\* The decimal value of a sequence of digits.
RECURSIVE NumVal(_)
NumVal(ds) ==
    IF ds = <<>> THEN 0 ELSE NumVal(SubSeq(ds, 1, Len(ds) - 1)) * 10 + DigitVal(ds[Len(ds)])

\* The number of leading digits of s, at most max.
RECURSIVE DigitRun(_, _)
DigitRun(s, max) ==
    IF max = 0 \/ s = <<>> \/ Head(s) \notin Digits THEN 0
    ELSE 1 + DigitRun(Tail(s), max - 1)

\* Zero-padded decimal of width 2 and 4 (strftime's %m %d %H %M %S and %Y).
Pad2(n) == <<DigitChar(n \div 10), DigitChar(n % 10)>>
Pad4(n) == <<DigitChar(n \div 1000), DigitChar((n \div 100) % 10)>> \o Pad2(n % 100)

\* ------------------------------------------------------------------- dates
IsLeap(y) == (y % 4 = 0 /\ y % 100 # 0) \/ y % 400 = 0

DaysInMonth(y, m) ==
    IF m = 2 THEN (IF IsLeap(y) THEN 29 ELSE 28)
    ELSE IF m \in {4, 6, 9, 11} THEN 30 ELSE 31

\* A naive datetime: year, month, day, hour, minute, second.
DateTime(y, m, d, H, M, S) == [y |-> y, m |-> m, d |-> d, H |-> H, M |-> M, S |-> S]

NoDate == [y |-> 0, m |-> 0, d |-> 0, H |-> 0, M |-> 0, S |-> 0]

NextDay(dt) ==
    IF dt.d < DaysInMonth(dt.y, dt.m) THEN [dt EXCEPT !.d = dt.d + 1]
    ELSE IF dt.m < 12 THEN [dt EXCEPT !.m = dt.m + 1, !.d = 1]
    ELSE [dt EXCEPT !.y = dt.y + 1, !.m = 1, !.d = 1]

PrevDay(dt) ==
    IF dt.d > 1 THEN [dt EXCEPT !.d = dt.d - 1]
    ELSE IF dt.m > 1 THEN [dt EXCEPT !.m = dt.m - 1, !.d = DaysInMonth(dt.y, dt.m - 1)]
    ELSE [dt EXCEPT !.y = dt.y - 1, !.m = 12, !.d = 31]

\* dt shifted by delta minutes, |delta| below one day.
AddMinutes(dt, delta) ==
    LET t == dt.H * 60 + dt.M + delta
    IN  IF t >= 1440 THEN [NextDay(dt) EXCEPT !.H = (t - 1440) \div 60, !.M = (t - 1440) % 60]
        ELSE IF t < 0 THEN [PrevDay(dt) EXCEPT !.H = (t + 1440) \div 60, !.M = (t + 1440) % 60]
        ELSE [dt EXCEPT !.H = t \div 60, !.M = t % 60]

\* The zones a session can be configured with, and the offset from UTC, in
\* minutes, of each at a local date.  New York is on daylight time from April
\* to October and on standard time from December to February; the dates the
\* model draws stay clear of the March and November changeovers.
Zones == {"UTC", "America/New_York", "Asia/Kolkata"}

UtcOffset(zone, dt) ==
    CASE zone = "UTC" -> 0
      [] zone = "Asia/Kolkata" -> 330
      [] zone = "America/New_York" -> IF dt.m \in 4..10 THEN 0 - 240 ELSE 0 - 300

\* aware_local.astimezone(timezone.utc): the UTC wall clock of a local one.
LocalToUtc(dt, zone) == AddMinutes(dt, 0 - UtcOffset(zone, dt))

\* A variant of UtcToLocal that converts nothing.
UtcToLocalUnconverted(dt, zone) == dt

\* aware_utc.astimezone(zone): the zone's offset is the one in force at the
\* instant, which the offset at the standard-time local date decides away
\* from the changeovers.
UtcToLocal(dt, zone) ==
    LET guess == AddMinutes(dt, UtcOffset(zone, dt))
    IN  AddMinutes(dt, UtcOffset(zone, guess))

\* strftime("%Y-%m-%dT%H:%M:%SZ")
FormatUtc(dt) ==
    Pad4(dt.y) \o <<"-">> \o Pad2(dt.m) \o <<"-">> \o Pad2(dt.d) \o <<"T">>
        \o Pad2(dt.H) \o <<":">> \o Pad2(dt.M) \o <<":">> \o Pad2(dt.S) \o <<"Z">>

\* datetime.strptime(s, fmt): fmt is a sequence of directives ("%Y", "%m",
\* "%d", "%H", "%M", "%S") and literal characters.  %Y takes exactly four
\* digits, the others one or two; a field out of its range, a literal that
\* does not match, text left over, or a day the month does not have, is a
\* ValueError (ok = FALSE).  Fields the format lacks keep strptime's
\* defaults (1900-01-01 00:00:00).
Directives == {"%Y", "%m", "%d", "%H", "%M", "%S"}

FieldOk(f, n, v) ==
    CASE f = "%Y" -> n = 4
      [] f = "%m" -> n >= 1 /\ v \in 1..12
      [] f = "%d" -> n >= 1 /\ v \in 1..31
      [] f = "%H" -> n >= 1 /\ v \in 0..23
      [] f = "%M" -> n >= 1 /\ v \in 0..59
      [] f = "%S" -> n >= 1 /\ v \in 0..59

SetField(dt, f, v) ==
    CASE f = "%Y" -> [dt EXCEPT !.y = v]
      [] f = "%m" -> [dt EXCEPT !.m = v]
      [] f = "%d" -> [dt EXCEPT !.d = v]
      [] f = "%H" -> [dt EXCEPT !.H = v]
      [] f = "%M" -> [dt EXCEPT !.M = v]
      [] f = "%S" -> [dt EXCEPT !.S = v]

ParseFailed == [ok |-> FALSE, dt |-> NoDate]

RECURSIVE Scan(_, _, _)
Scan(s, fmt, acc) ==
    IF fmt = <<>> THEN (IF s = <<>> THEN [ok |-> TRUE, dt |-> acc] ELSE ParseFailed)
    ELSE LET f == Head(fmt)
         IN  IF f \in Directives
             THEN LET n == DigitRun(s, IF f = "%Y" THEN 4 ELSE 2)
                      v == NumVal(SubSeq(s, 1, n))
                  IN  IF FieldOk(f, n, v)
                      THEN Scan(SubSeq(s, n + 1, Len(s)), Tail(fmt), SetField(acc, f, v))
                      ELSE ParseFailed
             ELSE IF s # <<>> /\ Head(s) = f THEN Scan(Tail(s), Tail(fmt), acc)
             ELSE ParseFailed

Strptime(s, fmt) ==
    LET r == Scan(s, fmt, DateTime(1900, 1, 1, 0, 0, 0))
    IN  IF r.ok /\ r.dt.y >= 1 /\ r.dt.d <= DaysInMonth(r.dt.y, r.dt.m) THEN r
        ELSE ParseFailed

FmtIso == <<"%Y", "-", "%m", "-", "%d">>
FmtUs == <<"%m", "/", "%d", "/", "%Y">>
FmtCanonical == FmtIso \o <<"T", "%H", ":", "%M", ":", "%S", "Z">>

\* int(s) of a stripped console input: an optional sign and at least one
\* digit; anything else is a ValueError (ok = FALSE).
ParseInt(s) ==
    LET signed == s # <<>> /\ Head(s) \in {"-", "+"}
        body == IF signed THEN Tail(s) ELSE s
    IN  IF body # <<>> /\ DigitRun(body, Len(body)) = Len(body)
        THEN [ok |-> TRUE, val |-> IF signed /\ Head(s) = "-" THEN 0 - NumVal(body) ELSE NumVal(body)]
        ELSE [ok |-> FALSE, val |-> 0]

\* ------------------------------------------------------------- reconciler
\* An Assignment of the course backend: name, due_at and description, each a
\* string or None.  An item of the extraction backend's JSON: a dict with
\* name, due_date and description (None: the key is missing or null), or a
\* value that is not a dict (isdict = FALSE), on which item.get raises.
\* The parsed response gpt_data is an array, an object (iterating it yields
\* its keys, which are strings), a number or null.
Iterable(g) == g.kind \in {"array", "object"}

\* bool(gpt_data)
GptTruthy(g) == IF Iterable(g) THEN g.items # <<>> ELSE g.kind = "number"

\* Variants of the three decisions of the reconciler, each wrong in one way:
\* no assignment is skipped, any score beats the initial best, and an equal
\* score replaces the best so far.
HasDueDateNever(a) == FALSE

BestScoreBelow == 0 - 2

BetterOrEqual(score, best_score) == score >= best_score /\ score > 0

\* "if getattr(a, "due_at", None): continue"
HasDueDate(a) == Truthy(a.due_at)

\* best_score = 0.0
BestScoreInit == 0

\* "if score > best_score"
Better(score, best_score) == score > best_score

\* The inner loop of _match_assignments_with_dates over items i.. : the
\* index of best_item (0: None) and whether item.get raised.
RECURSIVE BestFrom(_, _, _, _, _, _)
BestFrom(a, items, sim, i, best_score, best_item) ==
    IF i > Len(items) THEN [best_item |-> best_item, raised |-> FALSE]
    ELSE IF ~items[i].isdict THEN [best_item |-> best_item, raised |-> TRUE]
    ELSE IF ~Truthy(a.name) \/ ~Truthy(items[i].name)
         THEN BestFrom(a, items, sim, i + 1, best_score, best_item)
    ELSE IF Better(sim[<<a.name, items[i].name>>], best_score)
         THEN BestFrom(a, items, sim, i + 1, sim[<<a.name, items[i].name>>], i)
    ELSE BestFrom(a, items, sim, i + 1, best_score, best_item)

\* A variant of _apply_local_utc_date that stores a string it cannot parse.
ApplyLocalUtcDateRaw(a, date_str, zone) ==
    LET r == Strptime(date_str, FmtIso)
    IN  IF r.ok
        THEN [a EXCEPT !.due_at = FormatUtc(LocalToUtc([r.dt EXCEPT !.H = 23, !.M = 59], zone))]
        ELSE [a EXCEPT !.due_at = date_str]

\* _apply_local_utc_date of canvas_calendar_generator.py: 23:59 of the date
\* in the local zone, stored in UTC; a ValueError leaves the assignment.
ApplyLocalUtcDate(a, date_str, zone) ==
    LET r == Strptime(date_str, FmtIso)
    IN  IF r.ok
        THEN [a EXCEPT !.due_at = FormatUtc(LocalToUtc([r.dt EXCEPT !.H = 23, !.M = 59], zone))]
        ELSE a

\* syllabus-calendar.py: a.due_at = f"{due_date}T23:59:00Z"
ApplyDateSuffix(a, date_str) ==
    [a EXCEPT !.due_at = date_str \o <<"T", "2", "3", ":", "5", "9", ":", "0", "0", "Z">>]

\* A variant of ApplyBest that copies the description whatever it is.
ApplyBestAnyDescription(a, item, zone, which) ==
    LET a1 == [a EXCEPT !.description = item.description]
    IN  IF ~Truthy(item.due_date) THEN a1
        ELSE IF which = "canvas" THEN ApplyLocalUtcDate(a1, item.due_date, zone)
        ELSE ApplyDateSuffix(a1, item.due_date)

\* The body of "if best_item:" for one assignment.
ApplyBest(a, item, zone, which) ==
    LET a1 == IF Truthy(item.description) THEN [a EXCEPT !.description = item.description]
              ELSE a
    IN  IF ~Truthy(item.due_date) THEN a1
        ELSE IF which = "canvas" THEN ApplyLocalUtcDate(a1, item.due_date, zone)
        ELSE ApplyDateSuffix(a1, item.due_date)

\* _match_assignments_with_dates from assignment k on.  Returns the
\* assignments as mutated, best_item per assignment visited (0: None or
\* skipped) and whether an exception left the loop.
RECURSIVE MatchFrom(_, _, _, _, _, _, _)
MatchFrom(as, g, sim, zone, which, k, best) ==
    IF k > Len(as) THEN [assignments |-> as, best_item |-> best, raised |-> FALSE]
    ELSE IF HasDueDate(as[k])
         THEN MatchFrom(as, g, sim, zone, which, k + 1, Append(best, 0))
    ELSE IF ~Iterable(g) THEN [assignments |-> as, best_item |-> best, raised |-> TRUE]
    ELSE LET b == BestFrom(as[k], g.items, sim, 1, BestScoreInit, 0)
         IN  IF b.raised THEN [assignments |-> as, best_item |-> best, raised |-> TRUE]
             ELSE IF b.best_item = 0
                  THEN MatchFrom(as, g, sim, zone, which, k + 1, Append(best, 0))
             ELSE MatchFrom([as EXCEPT ![k] = ApplyBest(as[k], g.items[b.best_item], zone, which)],
                            g, sim, zone, which, k + 1, Append(best, b.best_item))

MatchAssignmentsWithDates(as, g, sim, zone, which) == MatchFrom(as, g, sim, zone, which, 1, <<>>)

\* ------------------------------------------------------------ course data
\* Names are opaque to the program except for emptiness and file
\* extensions, so a name is a sequence of words rather than of characters.
Date(y, m, d) == Pad4(y) \o <<"-">> \o Pad2(m) \o <<"-">> \o Pad2(d)

Assignment(name, due_at, description) ==
    [name |-> name, due_at |-> due_at, description |-> description]

\* What course.get_assignments() can return: an undated assignment, one the
\* backend already dated, an undated one without a name, and an undated one
\* of another name.
AssignmentPool ==
    { Assignment(<<"hw">>, None, <<"orig">>),
      Assignment(<<"hw">>, FormatUtc(DateTime(2025, 9, 10, 3, 59, 0)), <<"orig">>),
      Assignment(<<>>, None, None),
      Assignment(<<"quiz">>, None, None) }

RECURSIVE SeqsUpTo(_, _)
SeqsUpTo(S, n) ==
    IF n = 0 THEN {<<>>}
    ELSE LET shorter == SeqsUpTo(S, n - 1)
         IN  shorter \cup {Append(q, x) : q \in {t \in shorter : Len(t) = n - 1}, x \in S}

\* The sequences of at most n different elements of S.
Range(q) == {q[i] : i \in 1..Len(q)}

DistinctSeqsUpTo(S, n) == {q \in SeqsUpTo(S, n) : Cardinality(Range(q)) = Len(q)}

AssignmentLists == DistinctSeqsUpTo(AssignmentPool, MaxAssignments)

\* The courses process_course is followed on: without assignments, with
\* every assignment dated, with one undated assignment, and with a dated, an
\* undated and a nameless assignment.
CourseAssignments ==
    { <<>>,
      <<Assignment(<<"hw">>, FormatUtc(DateTime(2025, 9, 10, 3, 59, 0)), <<"orig">>)>>,
      <<Assignment(<<"hw">>, None, <<"orig">>)>>,
      <<Assignment(<<"hw">>, FormatUtc(DateTime(2025, 9, 10, 3, 59, 0)), <<"orig">>),
        Assignment(<<"hw">>, None, <<"orig">>),
        Assignment(<<>>, None, None)>> }

Item(name, due_date, description) ==
    [isdict |-> TRUE, name |-> name, due_date |-> due_date, description |-> description]

\* A JSON value that is not an object: item.get raises AttributeError.
NotADict == [isdict |-> FALSE, name |-> None, due_date |-> None, description |-> None]

JsonArray(items) == [kind |-> "array", items |-> items]
\* A JSON object with one key, e.g. {"assignments": [...]}.
JsonObject == [kind |-> "object", items |-> <<NotADict>>]
JsonNumber == [kind |-> "number", items |-> <<>>]
EmptyList == JsonArray(<<>>)

\* A reply of the extraction backend: the call raises (a transport error, a
\* reply without choices), or the content is not JSON, or it is JSON.
TransportError == [status |-> "error", value |-> EmptyList]
NotJson == [status |-> "text", value |-> EmptyList]
Json(v) == [status |-> "json", value |-> v]
NoResponse == [status |-> "none", value |-> EmptyList]

\* What the backend can make of a corpus.  The names n1 and n2 are scored
\* against the assignment names by nlp.
CandidatePool ==
    { Item(<<"n1">>, Date(2025, 9, 1), <<"D1">>),
      Item(<<"n2">>, Date(2024, 2, 28), <<>>),
      Item(<<"n1">>, <<"0", "9", "/", "0", "1", "/", "2", "0", "2", "5">>, None),
      Item(None, Date(2025, 12, 31), <<"D2">>),
      Item(<<"n2">>, None, <<"D2">>),
      Item(<<"n1">>, <<"s", "o", "o", "n">>, <<"D1">>) }

CandidateLists == DistinctSeqsUpTo(CandidatePool, MaxCandidates)

\* The replies the backend gives while process_course is followed: no reply,
\* prose, JSON that is no array, and arrays of a dated record, an undated one
\* and a value that is no record.
Responses ==
    {TransportError, NotJson, Json(JsonNumber), Json(JsonObject)}
        \cup {Json(JsonArray(l)) :
                l \in SeqsUpTo({Item(<<"n1">>, Date(2025, 9, 1), <<"D1">>),
                                Item(<<"n2">>, None, <<"D2">>),
                                NotADict}, MaxCandidates)}

\* GPTParser.parse_assignments_from_text: json.loads of the content, and []
\* on any exception.
ParseAssignmentsFromText(resp) == IF resp.status = "json" THEN resp.value ELSE EmptyList

\* course.syllabus_body: missing or None, whitespace only, or text.
SyllabusBodies == {None, <<" ">>, <<"S">>}

\* The body of the front page, where there is one.
PageBodies == {None, <<" ">>, <<"A">>}

\* A course file: display_name (may be None), filename, and the text its
\* extractor yields from its contents.
CanvasFile(display_name, filename, text) ==
    [display_name |-> display_name, filename |-> filename, text |-> text]

FilePool ==
    { CanvasFile(<<"notes", ".txt">>, <<"notes", ".txt">>, <<"B">>),
      CanvasFile(None, <<"plan", ".PDF">>, <<"C">>),
      CanvasFile(<<"photo", ".png">>, <<"photo", ".png">>, <<"X">>),
      CanvasFile(<<"week1", ".docx">>, <<"week1", ".bin">>, <<"D">>) }

FileLists == SeqsUpTo(FilePool, MaxFiles)

\* A module item: its type and, for a File item, the file content_id names.
ModuleItem(type, file) == [type |-> type, file |-> file]

NoFile == CanvasFile(None, <<>>, <<>>)

ItemPool ==
    { ModuleItem("File", CanvasFile(<<"notes", ".txt">>, <<"notes", ".txt">>, <<"B">>)),
      ModuleItem("Page", NoFile) }

ItemLists == SeqsUpTo(ItemPool, MaxItems)

\* str.lower() on the words of a file name.
LowerWord(w) ==
    CASE w = ".PDF" -> ".pdf" [] w = ".TXT" -> ".txt" [] w = ".DOCX" -> ".docx" [] OTHER -> w

Lower(s) == [i \in 1..Len(s) |-> LowerWord(s[i])]

RelevantExts == {<<".pdf">>, <<".docx">>, <<".txt">>}

\* (f_obj.display_name or f_obj.filename).lower() ends in a relevant extension
IsRelevant(f) ==
    LET fname == Lower(IF Truthy(f.display_name) THEN f.display_name ELSE f.filename)
    IN  \E ext \in RelevantExts : EndsWith(fname, ext)

\* The text one attempt of _download_and_extract_file returns when nothing
\* raises: chosen by the extension of file_obj.filename, "" for any other.
ExtractedText(f) ==
    IF \E ext \in RelevantExts : EndsWith(Lower(f.filename), ext) THEN f.text ELSE <<>>

\* retries=3 in both calls of _download_and_extract_file
Retries == 3

\* One source the cascade obtained: the landing page with its body, or a
\* file of the listing or of a module that was downloaded.
Source(source, file, body) == [source |-> source, file |-> file, body |-> body]

\* ------------------------------------------------------------ session data
\* The names of the three credentials.  A value is a sequence of words, ""
\* is <<>>, and None stands for a name os.environ does not hold and for a
\* line the file does not have.
Keys == {"CANVAS_API_URL", "CANVAS_API_KEY", "OPENAI_API_KEY"}

Credentials(url, key, openai) ==
    [CANVAS_API_URL |-> url, CANVAS_API_KEY |-> key, OPENAI_API_KEY |-> openai]

NoCredentials == [k \in Keys |-> None]

EnvFile(vals) == [exists |-> TRUE, vals |-> vals]

NoEnvFile == [exists |-> FALSE, vals |-> NoCredentials]

\* re.sub(r"/api/v1/?$", "", canvas_url, flags=re.IGNORECASE) on the path
\* segments of the URL
CleanUrl(url) ==
    IF Len(url) >= 2 /\ SubSeq(url, Len(url) - 1, Len(url)) \in {<<"api", "v1">>, <<"API", "V1">>}
    THEN SubSeq(url, 1, Len(url) - 2)
    ELSE url

\* What the user types at the three prompts of prompt_for_credentials: two
\* complete sets, one whose URL names the API version, and three with one
\* answer left empty.
CredentialInputs ==
    { Credentials(<<"u1">>, <<"k1">>, <<"o1">>),
      Credentials(<<"u2">>, <<"k2">>, <<"o2">>),
      Credentials(<<"u1", "api", "v1">>, <<"k1">>, <<"o1">>),
      Credentials(<<>>, <<"k1">>, <<"o1">>),
      Credentials(<<"u1">>, <<>>, <<"o1">>),
      Credentials(<<"u1">>, <<"k1">>, <<>>) }

\* The .env files a session can start with: none, a complete one, and one
\* written by hand without the OPENAI_API_KEY line.
StoredFiles ==
    { NoEnvFile,
      EnvFile(Credentials(<<"u1">>, <<"k1">>, <<"o1">>)),
      EnvFile(Credentials(<<"u1">>, <<"k1">>, None)) }

\* load_dotenv(dotenv_path=ENV_FILE): a name os.environ already holds is
\* not overridden.
LoadDotenv(env, file) ==
    [k \in Keys |-> IF env[k] # None THEN env[k] ELSE file.vals[k]]

\* os.getenv(name, "")
Getenv(env, k) == IF env[k] = None THEN <<>> ELSE env[k]

\* A Course of the backend; name is None when the object has no such
\* attribute (get_user_courses reads it with getattr(c, "name", "Untitled")).
Course(name) == [name |-> name]

CoursePool == {Course(<<"Course">>), Course(None)}

CourseLists == SeqsUpTo(CoursePool, MaxCourses)

\* What get_user_courses can return: [] when the listing raises, as it does
\* without an endpoint or a token, or lists nothing.
CourseListings(g) ==
    IF Truthy(g.CANVAS_API_URL) /\ Truthy(g.CANVAS_API_KEY) THEN CourseLists ELSE {<<>>}

\* The inputs at "Pick a course number or 0 to exit".
Picks == {<<DigitChar(n)>> : n \in 0..(MaxCourses + 1)} \cup {<<"x">>, <<"-", "1">>}

\* The inputs at "Time Zone: ".
TimeZoneInputs == {"", "Asia/Kolkata"}

\* How process_course ends for a course that has a name: error names where
\* the exception it caught was raised, emitted what became of the calendar.
CourseOutcomes ==
    { [error |-> "none", emitted |-> "written"],
      [error |-> "none", emitted |-> "failed"],
      [error |-> "get_assignments", emitted |-> "no"],
      [error |-> "manual", emitted |-> "no"] }

\* ------------------------------------------------------------------- state
VARIABLES
    impl,            \* which program runs: "canvas" or "syllabus"
    local_timezone,  \* self.local_timezone
    system_zone,     \* the zone of the machine the program runs on
    nlp,             \* the similarity of the loaded model, per pair of names
    pc,              \* the position of process_course
    error,           \* where the exception process_course caught was raised
    backend,         \* the assignments as course.get_assignments() returned them
    assignments,     \* the Assignment objects, mutated in place
    syllabus_body,   \* raw_syllabus_body (None as for all_text)
    all_text,        \* the corpus (None: not gathered yet, or read for the last time)
    text_parts,      \* _gather_additional_text's text_parts
    file_list,       \* _gather_file_texts' file_list
    file_idx,        \* the position of its for loop
    text_chunks,     \* text_chunks of _gather_file_texts / _gather_module_texts
    modules,         \* how many modules course.get_modules() listed
    mod_idx,         \* the position of the loop over them
    items,           \* the items of the current module
    item_idx,        \* the position of the loop over them
    f_obj,           \* the file being downloaded
    caller,          \* which loop called _download_and_extract_file
    attempt,         \* its loop variable
    sleeps,          \* time.sleep(delay) calls of this call
    failures,        \* attempts of this call that raised
    extracted,       \* its return value
    fetches,         \* the sources fetched for the corpus: "page", "files", "modules"
    read,            \* the sources the cascade obtained for all_text, in that order
    gpt_calls,       \* calls of the extraction backend
    gpt_request,     \* the text of the last one
    gpt_response,    \* the reply to it
    gpt_data,        \* the candidate records
    best_item,       \* best_item of each assignment the reconciler visited
    missing,         \* indices of the assignments handed to _handle_manual_dates
    man_idx,         \* the position of its for loop
    calendar,        \* the events of the calendar written
    emitted,         \* "written" or "failed" once the calendar file was opened
    env_file,        \* the .env file: whether it exists, and its value per name
    environ,         \* os.environ, for the three names
    gen,             \* the credentials the generator was constructed with
    courses,         \* courses of run_canvas_flow
    choice,          \* the last input at the main menu
    pick             \* the last input at the course prompt

session == <<env_file, environ, gen, courses, choice, pick>>
config == <<impl, local_timezone, system_zone, nlp, session>>
cascade == <<text_parts, file_list, file_idx, text_chunks, modules, mod_idx, items,
             item_idx, f_obj, caller, attempt, sleeps, failures, extracted, read>>
download == <<f_obj, caller, attempt, sleeps, failures, extracted>>
gpt == <<gpt_calls, gpt_request, gpt_response, gpt_data>>
manual == <<missing, man_idx>>
output == <<calendar, emitted>>

vars == <<impl, local_timezone, system_zone, nlp, pc, error, backend, assignments, syllabus_body,
          all_text, text_parts, file_list, file_idx, text_chunks, modules, mod_idx,
          items, item_idx, f_obj, caller, attempt, sleeps, failures, extracted, fetches, read,
          gpt_calls, gpt_request, gpt_response, gpt_data, best_item, missing, man_idx, calendar,
          emitted, env_file, environ, gen, courses, choice, pick>>

ANames == {<<"hw">>, <<"quiz">>}
CNames == {<<"n1">>, <<"n2">>}
Scores == -1..2

\* The similarities the model can have: a score per pair of non-empty names,
\* where "quiz" resembles n1 as "hw" resembles n2, and n2 as "hw" n1.
SimilarityTables ==
    {t \in [ANames \X CNames -> Scores] :
        /\ t[<<"quiz">>, <<"n1">>] = t[<<"hw">>, <<"n2">>]
        /\ t[<<"quiz">>, <<"n2">>] = t[<<"hw">>, <<"n1">>]}

\* The locals of a function that has returned, or has not been called.
NoDownload ==
    /\ f_obj' = NoFile
    /\ caller' = "none"
    /\ attempt' = 0
    /\ sleeps' = 0
    /\ failures' = 0
    /\ extracted' = <<>>

NoCascade ==
    /\ text_parts' = <<>>
    /\ file_list' = <<>>
    /\ file_idx' = 0
    /\ text_chunks' = <<>>
    /\ modules' = 0
    /\ mod_idx' = 0
    /\ items' = <<>>
    /\ item_idx' = 0
    /\ NoDownload

\* The state at the call of process_course(course), but for the session's
\* configuration.
Idle ==
    /\ pc = "start"
    /\ error = "none"
    /\ backend = <<>>
    /\ assignments = <<>>
    /\ syllabus_body = None
    /\ all_text = None
    /\ text_parts = <<>>
    /\ file_list = <<>>
    /\ file_idx = 0
    /\ text_chunks = <<>>
    /\ modules = 0
    /\ mod_idx = 0
    /\ items = <<>>
    /\ item_idx = 0
    /\ f_obj = NoFile
    /\ caller = "none"
    /\ attempt = 0
    /\ sleeps = 0
    /\ failures = 0
    /\ extracted = <<>>
    /\ fetches = {}
    /\ read = <<>>
    /\ gpt_calls = 0
    /\ gpt_request = None
    /\ gpt_response = NoResponse
    /\ gpt_data = EmptyList
    /\ best_item = <<>>
    /\ missing = <<>>
    /\ man_idx = 0
    /\ calendar = <<>>
    /\ emitted = "no"

\* process_course's "except Exception": the course is abandoned.
Caught(where) ==
    /\ pc' = "done"
    /\ error' = where

\* ------------------------------------------------- canvas_calendar_generator
\* Step 1: assignments = list(course.get_assignments())
FetchAssignments ==
    /\ pc = "start"
    /\ \/ \E as \in CourseAssignments :
            /\ backend' = as
            /\ assignments' = as
            /\ pc' = IF impl = "canvas" THEN "syllabus_body" ELSE "choice"
            /\ error' = error
       \/ /\ Caught("get_assignments")
          /\ UNCHANGED <<backend, assignments>>
    /\ UNCHANGED <<config, syllabus_body, all_text, cascade, fetches, gpt, best_item,
                   manual, output>>

\* Variants of the three tests below, each wrong in one way: the inline
\* description is never used, whitespace counts as text, and the last attempt
\* is followed by a sleep and one more attempt.
InlinePresentNever(raw) == FALSE

CorpusPresentUnstripped(text) == text # <<>>

MayRetryAlways(n) == n <= Retries

\* A variant of AppendChunk that puts the newest text first.
PrependChunk(chunks, text) == IF text # <<>> THEN <<text>> \o chunks ELSE chunks

\* "if raw_syllabus_body.strip():"
InlinePresent(raw) == Strip(raw) # <<>>

\* "if all_text.strip():"
CorpusPresent(text) == Strip(text) # <<>>

\* "if attempt < retries:"
MayRetry(n) == n < Retries

\* "if extracted: text_chunks.append(extracted)"
AppendChunk(chunks, text) == IF text # <<>> THEN Append(chunks, text) ELSE chunks

\* Steps 2 and 3: the inline description, when not blank, is the corpus.
CheckSyllabusBody ==
    /\ pc = "syllabus_body"
    /\ \E body \in SyllabusBodies :
          LET raw == IF Truthy(body) THEN body ELSE <<>>
          IN  /\ syllabus_body' = raw
              /\ IF InlinePresent(raw)
                 THEN /\ all_text' = raw
                      /\ pc' = "parse"
                 ELSE /\ all_text' = all_text
                      /\ pc' = "front_page"
    /\ UNCHANGED <<config, error, backend, assignments, cascade, fetches, gpt, best_item,
                   manual, output>>

\* _gather_additional_text, A: _get_front_page_text swallows any exception.
GetFrontPageText ==
    /\ pc = "front_page"
    /\ fetches' = fetches \cup {"page"}
    /\ \/ \E body \in PageBodies :
            /\ text_parts' = IF Truthy(body) THEN <<body>> ELSE <<>>
            /\ read' = IF Truthy(body) THEN Append(read, Source("page", NoFile, body))
                       ELSE read
       \/ /\ text_parts' = <<>>
          /\ read' = read
    /\ pc' = "list_files"
    /\ UNCHANGED <<config, error, backend, assignments, syllabus_body, all_text, file_list,
                   file_idx, text_chunks, modules, mod_idx, items, item_idx, download, gpt,
                   best_item, manual, output>>

\* _gather_file_texts: file_list = list(course.get_files()); an exception
\* returns "".
ListFiles ==
    /\ pc = "list_files"
    /\ fetches' = fetches \cup {"files"}
    /\ \/ \E fl \in FileLists :
            /\ file_list' = fl
            /\ file_idx' = 1
            /\ pc' = "files"
       \/ /\ pc' = "list_modules"
          /\ UNCHANGED <<file_list, file_idx>>
    /\ UNCHANGED <<config, error, backend, assignments, syllabus_body, all_text, text_parts,
                   text_chunks, modules, mod_idx, items, item_idx, download, read, gpt,
                   best_item, manual, output>>

\* One turn of "for f_obj in file_list", up to the call of
\* _download_and_extract_file; after the last file the chunks are joined and
\* the function returns to _gather_additional_text.
FileStep ==
    /\ pc = "files"
    /\ IF file_idx > Len(file_list)
       THEN /\ text_parts' = IF text_chunks # <<>>
                             THEN Append(text_parts, Join(BlankLine, text_chunks))
                             ELSE text_parts
            /\ pc' = "list_modules"
            /\ file_list' = <<>>
            /\ file_idx' = 0
            /\ text_chunks' = <<>>
            /\ NoDownload
            /\ UNCHANGED read
       ELSE IF IsRelevant(file_list[file_idx])
       THEN /\ f_obj' = file_list[file_idx]
            /\ caller' = "files"
            /\ attempt' = 1
            /\ sleeps' = 0
            /\ failures' = 0
            /\ extracted' = <<>>
            /\ pc' = "download"
            /\ UNCHANGED <<text_parts, file_list, file_idx, text_chunks, read>>
       ELSE /\ file_idx' = file_idx + 1
            /\ pc' = "files"
            /\ UNCHANGED <<text_parts, file_list, text_chunks, download, read>>
    /\ UNCHANGED <<config, error, backend, assignments, syllabus_body, all_text, modules,
                   mod_idx, items, item_idx, fetches, gpt, best_item, manual, output>>

\* One attempt of _download_and_extract_file: get_contents, write, extract.
\* An attempt that raises is retried after a sleep unless it was the last.
DownloadAttempt ==
    /\ pc = "download"
    /\ fetches' = fetches \cup {IF caller = "files" THEN "files" ELSE "modules"}
    /\ \/ /\ extracted' = ExtractedText(f_obj)
          /\ pc' = "downloaded"
          /\ UNCHANGED <<attempt, sleeps, failures>>
       \/ /\ failures' = failures + 1
          /\ IF MayRetry(attempt)
             THEN /\ sleeps' = sleeps + 1
                  /\ attempt' = attempt + 1
                  /\ pc' = "download"
                  /\ extracted' = extracted
             ELSE /\ extracted' = <<>>
                  /\ pc' = "downloaded"
                  /\ UNCHANGED <<attempt, sleeps>>
    /\ UNCHANGED <<config, error, backend, assignments, syllabus_body, all_text, text_parts,
                   file_list, file_idx, text_chunks, modules, mod_idx, items, item_idx,
                   f_obj, caller, read, gpt, best_item, manual, output>>

\* Back in the caller: "if extracted: text_chunks.append(extracted)".
AfterDownload ==
    /\ pc = "downloaded"
    /\ text_chunks' = AppendChunk(text_chunks, extracted)
    /\ read' = IF failures < attempt THEN Append(read, Source(caller, f_obj, None))
               ELSE read
    /\ IF caller = "files"
       THEN /\ file_idx' = file_idx + 1
            /\ pc' = "files"
            /\ item_idx' = item_idx
       ELSE /\ item_idx' = item_idx + 1
            /\ pc' = "items"
            /\ file_idx' = file_idx
    /\ NoDownload
    /\ UNCHANGED <<config, error, backend, assignments, syllabus_body, all_text, text_parts,
                   file_list, modules, mod_idx, items, fetches, gpt, best_item, manual,
                   output>>

\* _gather_additional_text returns "\n\n".join(text_parts) to process_course.
ReturnCorpus(parts) ==
    /\ all_text' = Join(BlankLine, parts)
    /\ pc' = "parse"
    /\ NoCascade

\* _gather_module_texts: modules = list(course.get_modules()); an exception
\* returns "".
ListModules ==
    /\ pc = "list_modules"
    /\ fetches' = fetches \cup {"modules"}
    /\ \/ \E n \in 0..MaxModules :
            /\ modules' = n
            /\ mod_idx' = 1
            /\ pc' = "modules"
            /\ UNCHANGED <<all_text, text_parts, file_list, file_idx, text_chunks, items,
                           item_idx, download>>
       \/ ReturnCorpus(text_parts)
    /\ UNCHANGED <<config, error, backend, assignments, syllabus_body, read, gpt, best_item,
                   manual, output>>

\* One turn of "for mod in modules": items = list(mod.get_module_items()),
\* outside any try; after the last module the chunks are joined.
ModuleStep ==
    /\ pc = "modules"
    /\ IF mod_idx > modules
       THEN /\ ReturnCorpus(IF text_chunks # <<>>
                            THEN Append(text_parts, Join(BlankLine, text_chunks))
                            ELSE text_parts)
            /\ UNCHANGED <<error, fetches, read>>
       ELSE /\ fetches' = fetches \cup {"modules"}
            /\ \/ \E il \in ItemLists :
                    /\ items' = il
                    /\ item_idx' = 1
                    /\ pc' = "items"
                    /\ UNCHANGED <<error, all_text, text_parts, file_list, file_idx,
                                   text_chunks, modules, mod_idx, download, read>>
               \/ /\ Caught("get_module_items")
                  /\ NoCascade
                  /\ read' = <<>>
                  /\ all_text' = all_text
    /\ UNCHANGED <<config, backend, assignments, syllabus_body, gpt, best_item, manual,
                   output>>

\* One turn of "for it in items", up to the call of
\* _download_and_extract_file; course.get_file is inside the try.
ItemStep ==
    /\ pc = "items"
    /\ IF item_idx > Len(items)
       THEN /\ mod_idx' = mod_idx + 1
            /\ items' = <<>>
            /\ item_idx' = 0
            /\ pc' = "modules"
            /\ UNCHANGED <<download, fetches, read>>
       ELSE IF items[item_idx].type # "File"
       THEN /\ item_idx' = item_idx + 1
            /\ pc' = "items"
            /\ UNCHANGED <<mod_idx, items, download, fetches, read>>
       ELSE /\ fetches' = fetches \cup {"modules"}
            /\ \/ /\ IsRelevant(items[item_idx].file)
                  /\ f_obj' = items[item_idx].file
                  /\ caller' = "modules"
                  /\ attempt' = 1
                  /\ sleeps' = 0
                  /\ failures' = 0
                  /\ extracted' = <<>>
                  /\ pc' = "download"
                  /\ UNCHANGED <<mod_idx, items, item_idx, read>>
               \/ /\ ~IsRelevant(items[item_idx].file)
                  /\ item_idx' = item_idx + 1
                  /\ pc' = "items"
                  /\ UNCHANGED <<mod_idx, items, download, read>>
               \/ /\ item_idx' = item_idx + 1
                  /\ pc' = "items"
                  /\ UNCHANGED <<mod_idx, items, download, read>>
    /\ UNCHANGED <<config, error, backend, assignments, syllabus_body, all_text, text_parts,
                   file_list, file_idx, text_chunks, modules, gpt, best_item, manual,
                   output>>

\* Step 4: the extractor is called on a corpus that is not blank, and
\* process_course is suspended until the backend replies.  What the corpus
\* was read from is forgotten.
ParseStep ==
    /\ pc = "parse"
    /\ IF CorpusPresent(all_text)
       THEN /\ gpt_calls' = gpt_calls + 1
            /\ gpt_request' = all_text
            /\ pc' = "await_gpt"
            /\ UNCHANGED <<gpt_response, gpt_data>>
       ELSE /\ pc' = "match"
            /\ UNCHANGED gpt
    /\ read' = <<>>
    /\ UNCHANGED <<config, error, backend, assignments, syllabus_body, all_text, text_parts,
                   file_list, file_idx, text_chunks, modules, mod_idx, items, item_idx,
                   download, fetches, best_item, manual, output>>

\* The backend's reply resumes process_course with gpt_data.  The request is
\* answered, and raw_syllabus_body and all_text are not read again: the model
\* forgets them.
ExtractorReply ==
    /\ pc = "await_gpt"
    /\ \E resp \in Responses :
          /\ gpt_response' = resp
          /\ gpt_data' = ParseAssignmentsFromText(resp)
    /\ gpt_request' = None
    /\ all_text' = None
    /\ syllabus_body' = None
    /\ pc' = "match"
    /\ UNCHANGED <<config, error, backend, assignments, cascade, fetches, gpt_calls,
                   best_item, manual, output>>

\* Step 5: self._match_assignments_with_dates(assignments, gpt_data)
Reconcile ==
    /\ pc = "match"
    /\ LET r == MatchAssignmentsWithDates(assignments, gpt_data, nlp, local_timezone, impl)
       IN  /\ assignments' = r.assignments
           /\ best_item' = r.best_item
           /\ IF r.raised THEN Caught("reconcile")
              ELSE /\ pc' = IF impl = "canvas" THEN "prompt" ELSE "calendar"
                   /\ error' = error
    /\ UNCHANGED <<config, backend, syllabus_body, all_text, cascade, fetches, gpt, manual,
                   output>>

\* A variant of Missing that lists every assignment, dated or not.
MissingAll(as) == [i \in 1..Len(as) |-> i]

\* The indices of the assignments without a due date, in order:
\* [a for a in assignments if not getattr(a, "due_at", None)]
RECURSIVE MissingFrom(_, _)
MissingFrom(as, i) ==
    IF i > Len(as) THEN <<>>
    ELSE IF Truthy(as[i].due_at) THEN MissingFrom(as, i + 1)
    ELSE <<i>> \o MissingFrom(as, i + 1)

Missing(as) == MissingFrom(as, 1)

\* Step 6: the offer to enter the missing due dates by hand.
PromptManual ==
    /\ pc = "prompt"
    /\ IF Missing(assignments) = <<>>
       THEN /\ pc' = "calendar"
            /\ UNCHANGED manual
       ELSE \/ /\ missing' = Missing(assignments)
               /\ man_idx' = 1
               /\ pc' = "manual"
            \/ /\ pc' = "calendar"
               /\ UNCHANGED manual
    /\ UNCHANGED <<config, error, backend, assignments, syllabus_body, all_text, cascade,
                   fetches, gpt, best_item, output>>

\* What the user can type at the prompts, stripped.
ManualDates ==
    { <<>>, Date(2025, 12, 31), <<"1", "2", "/", "3", "1", "/", "2", "0", "2", "5">>,
      <<"s", "o", "o", "n">> }
HourInputs == {<<>>, <<"7">>, <<"2", "4">>, <<"x">>}
MinuteInputs == {<<>>, <<"3", "0">>, <<"6", "0">>}

\* _try_parse_date: the first of %Y-%m-%d and %m/%d/%Y that parses.
TryParseDate(date_str) ==
    IF Strptime(date_str, FmtIso).ok THEN Strptime(date_str, FmtIso)
    ELSE Strptime(date_str, FmtUs)

\* A variant of InRange that lets the hour 24 and the minute 60 through.
InRangeLoose(hour, minute) == ~(hour < 0 \/ hour > 24 \/ minute < 0 \/ minute > 60)

\* The values "if hour < 0 or hour > 23 or minute < 0 or minute > 59:" lets
\* through.
InRange(hour, minute) == ~(hour < 0 \/ hour > 23 \/ minute < 0 \/ minute > 59)

\* The body of "while True" of _handle_manual_dates for the three inputs,
\* stripped: the assignment is skipped ("skip"), prompted again ("again"),
\* an int() raises ("raise"), or due_at is stored ("set").
ManualTurn(dt_str, hr_str, mn_str, zone) ==
    LET date_parsed == TryParseDate(dt_str)
        hr == ParseInt(hr_str)
        mn == ParseInt(mn_str)
        hour == IF hr_str = <<>> THEN 23 ELSE hr.val
        minute == IF mn_str = <<>> THEN 59 ELSE mn.val
    IN  IF dt_str = <<>> THEN [kind |-> "skip", due_at |-> None]
        ELSE IF ~date_parsed.ok THEN [kind |-> "again", due_at |-> None]
        ELSE IF (hr_str # <<>> /\ ~hr.ok) \/ (mn_str # <<>> /\ ~mn.ok)
        THEN [kind |-> "raise", due_at |-> None]
        ELSE IF ~InRange(hour, minute) THEN [kind |-> "again", due_at |-> None]
        ELSE [kind |-> "set",
              due_at |-> FormatUtc(LocalToUtc([date_parsed.dt EXCEPT !.H = hour, !.M = minute],
                                              zone))]

\* One turn of "while True" of _handle_manual_dates for the assignment at
\* man_idx: the three inputs and what becomes of them.
ManualEntry ==
    /\ pc = "manual"
    /\ impl = "canvas"
    /\ IF man_idx > Len(missing)
       THEN /\ pc' = "calendar"
            /\ UNCHANGED <<error, assignments, man_idx>>
       ELSE \E dt_str \in ManualDates, hr_str \in HourInputs, mn_str \in MinuteInputs :
               LET turn == ManualTurn(dt_str, hr_str, mn_str, local_timezone)
               IN  CASE turn.kind = "skip" ->
                          /\ man_idx' = man_idx + 1
                          /\ UNCHANGED <<pc, error, assignments>>
                     [] turn.kind = "again" ->
                          UNCHANGED <<pc, error, assignments, man_idx>>
                     [] turn.kind = "raise" ->
                          /\ Caught("manual")
                          /\ UNCHANGED <<assignments, man_idx>>
                     [] turn.kind = "set" ->
                          /\ assignments' =
                                [assignments EXCEPT ![missing[man_idx]].due_at = turn.due_at]
                          /\ man_idx' = man_idx + 1
                          /\ UNCHANGED <<pc, error>>
    /\ UNCHANGED <<config, backend, syllabus_body, all_text, cascade, fetches, gpt,
                   best_item, missing, output>>

\* ---------------------------------------------------------------- calendar
CourseName == <<"Course">>

NameText(a) == IF a.name = None THEN <<"None">> ELSE a.name

\* The event _generate_calendar builds for an assignment whose due_at parses.
CalendarEvent(a, zone) ==
    LET dt_local == UtcToLocal(Strptime(a.due_at, FmtCanonical).dt, zone)
    IN  [summary |-> CourseName \o <<" - ">> \o NameText(a),
         description |-> IF Truthy(a.description) THEN a.description ELSE <<>>,
         dtstart |-> dt_local,
         dtend |-> AddMinutes(dt_local, 60),
         tzid |-> zone]

\* A variant of the loop of _generate_calendar that ends at the first
\* assignment it passes over.
RECURSIVE EventsUntilUndated(_, _)
EventsUntilUndated(as, zone) ==
    IF as = <<>> THEN <<>>
    ELSE IF ~Truthy(Head(as).due_at) \/ ~Strptime(Head(as).due_at, FmtCanonical).ok
         THEN <<>>
    ELSE <<CalendarEvent(Head(as), zone)>> \o EventsUntilUndated(Tail(as), zone)

\* The loop of _generate_calendar: assignments without a due_at, or with one
\* that does not parse, are passed over.
RECURSIVE Events(_, _)
Events(as, zone) ==
    IF as = <<>> THEN <<>>
    ELSE IF ~Truthy(Head(as).due_at) \/ ~Strptime(Head(as).due_at, FmtCanonical).ok
         THEN Events(Tail(as), zone)
    ELSE <<CalendarEvent(Head(as), zone)>> \o Events(Tail(as), zone)

\* Step 7: _generate_calendar.  canvas_calendar_generator.py reports a file
\* it cannot write; in syllabus-calendar.py the exception leaves the function.
GenerateCalendar ==
    /\ pc = "calendar"
    /\ calendar' = Events(assignments, local_timezone)
    /\ \/ /\ emitted' = "written"
          /\ pc' = IF impl = "canvas" THEN "done" ELSE "syllabus_search"
          /\ error' = error
       \/ /\ emitted' = "failed"
          /\ IF impl = "canvas"
             THEN /\ pc' = "done"
                  /\ error' = error
             ELSE Caught("calendar")
    /\ UNCHANGED <<config, backend, assignments, syllabus_body, all_text, cascade, fetches,
                   gpt, best_item, manual>>

\* -------------------------------------------------------- syllabus-calendar
\* process_course, 2: manual dates, or the extractor, for the missing ones.
ChooseMode ==
    /\ pc = "choice"
    /\ missing' = Missing(assignments)
    /\ IF Missing(assignments) = <<>>
       THEN /\ pc' = "calendar"
            /\ man_idx' = man_idx
       ELSE \/ /\ pc' = "manual"
               /\ man_idx' = 1
            \/ /\ pc' = "materials"
               /\ man_idx' = man_idx
            \/ /\ pc' = "calendar"
               /\ man_idx' = man_idx
    /\ UNCHANGED <<config, error, backend, assignments, syllabus_body, all_text, cascade,
                   fetches, gpt, best_item, output>>

\* One turn of "while True" of syllabus-calendar.py's _handle_manual_dates:
\* only %Y-%m-%d is read, nothing is stripped, no entry skips an assignment,
\* and the naive datetime is converted as a time of the system's zone.
ManualEntrySyllabus ==
    /\ pc = "manual"
    /\ impl = "syllabus"
    /\ IF man_idx > Len(missing)
       THEN /\ pc' = "calendar"
            /\ UNCHANGED <<error, assignments, man_idx>>
       ELSE \E dt_str \in ManualDates, hr \in HourInputs, mn \in MinuteInputs :
               LET dt == Strptime(dt_str, FmtIso)
                   hour == IF hr = <<>> THEN 23 ELSE ParseInt(hr).val
                   minute == IF mn = <<>> THEN 59 ELSE ParseInt(mn).val
               IN  IF ~dt.ok
                   THEN UNCHANGED <<pc, error, assignments, man_idx>>
                   ELSE IF (hr # <<>> /\ ~ParseInt(hr).ok) \/ (mn # <<>> /\ ~ParseInt(mn).ok)
                   THEN /\ Caught("manual")
                        /\ UNCHANGED <<assignments, man_idx>>
                   ELSE IF hour < 0 \/ hour > 23 \/ minute < 0 \/ minute > 59
                   THEN UNCHANGED <<pc, error, assignments, man_idx>>
                   ELSE /\ assignments' =
                              [assignments EXCEPT ![missing[man_idx]].due_at =
                                  FormatUtc(LocalToUtc([dt.dt EXCEPT !.H = hour, !.M = minute],
                                                       system_zone))]
                        /\ man_idx' = man_idx + 1
                        /\ UNCHANGED <<pc, error>>
    /\ UNCHANGED <<config, backend, syllabus_body, all_text, cascade, fetches, gpt,
                   best_item, missing, output>>

\* The assignments at the indices idx, and as with those replaced by sub.
Select(as, idx) == [j \in 1..Len(idx) |-> as[idx[j]]]

WriteBack(as, idx, sub) ==
    [i \in 1..Len(as) |->
        IF \E j \in 1..Len(idx) : idx[j] = i
        THEN sub[CHOOSE j \in 1..Len(idx) : idx[j] = i]
        ELSE as[i]]

\* _search_course_materials: the inline description and the front page are
\* joined whatever they hold, the extractor is called, and the missing
\* assignments are matched when it returned anything; every exception is
\* caught here.
SearchCourseMaterials ==
    /\ pc = "materials"
    /\ \E body \in SyllabusBodies, page \in PageBodies \cup {<<"raise">>}, resp \in Responses :
          LET syllabus == IF Truthy(body) THEN body ELSE <<>>
              homepage_text == IF page # <<"raise">> /\ Truthy(page) THEN page ELSE <<>>
              combined == syllabus \o BlankLine \o homepage_text
              data == ParseAssignmentsFromText(resp)
              r == MatchAssignmentsWithDates(Select(assignments, missing), data, nlp,
                                             local_timezone, impl)
          IN  /\ syllabus_body' = syllabus_body
              /\ all_text' = all_text
              /\ gpt_calls' = gpt_calls + 1
              /\ gpt_request' = None
              /\ gpt_response' = resp
              /\ gpt_data' = data
              /\ IF GptTruthy(data)
                 THEN /\ assignments' = WriteBack(assignments, missing, r.assignments)
                      /\ best_item' = r.best_item
                 ELSE UNCHANGED <<assignments, best_item>>
    /\ fetches' = fetches \cup {"page"}
    /\ pc' = "calendar"
    /\ UNCHANGED <<config, error, backend, cascade, manual, output>>

\* _search_syllabus_integrated: looks for a syllabus file among the files and
\* the modules and has the backend read it; nothing it finds is kept.
SearchSyllabusIntegrated ==
    /\ pc = "syllabus_search"
    /\ \/ fetches' = fetches \cup {"files"}
       \/ fetches' = fetches \cup {"files", "modules"}
    /\ pc' = "done"
    /\ UNCHANGED <<config, error, backend, assignments, syllabus_body, all_text, cascade,
                   gpt, best_item, manual, output>>

\* ----------------------------------------------------------------- session
\* The session's state while process_course runs: credentials stored, loaded
\* and handed to the generator, the first course picked.
InFlow ==
    /\ env_file = EnvFile(Credentials(<<"u1">>, <<"k1">>, <<"o1">>))
    /\ environ = env_file.vals
    /\ gen = environ
    /\ courses = <<Course(CourseName)>>
    /\ choice = "4"
    /\ pick = <<"1">>

pipeline == <<system_zone, nlp, backend, assignments, syllabus_body, all_text, cascade,
              fetches, gpt, best_item, manual, calendar>>

\* Choice "1" of main: prompt_for_credentials()
PromptForCredentials ==
    /\ pc = "menu"
    /\ choice' = "1"
    /\ \E input \in CredentialInputs :
          env_file' = EnvFile([input EXCEPT !.CANVAS_API_URL = CleanUrl(@)])
    /\ UNCHANGED <<impl, local_timezone, pipeline, pc, error, emitted, environ, gen, courses,
                   pick>>

\* load_credentials()
LoadCredentials ==
    IF env_file.exists THEN environ' = LoadDotenv(environ, env_file) ELSE UNCHANGED environ

\* Choice "2" of main
LoadChoice ==
    /\ pc = "menu"
    /\ choice' = "2"
    /\ LoadCredentials
    /\ UNCHANGED <<impl, local_timezone, pipeline, pc, error, emitted, env_file, gen, courses,
                   pick>>

\* Choice "3" of main: delete_credentials()
DeleteCredentials ==
    /\ pc = "menu"
    /\ choice' = "3"
    /\ env_file' = NoEnvFile
    /\ UNCHANGED <<impl, local_timezone, pipeline, pc, error, emitted, environ, gen, courses,
                   pick>>

\* Choice "4" of main: run_canvas_flow() is entered if load_credentials()
\* returned True, and waits at its first prompt.
StartFlow ==
    /\ pc = "menu"
    /\ choice' = "4"
    /\ LoadCredentials
    /\ pc' = IF env_file.exists THEN "time_zone" ELSE "menu"
    /\ UNCHANGED <<impl, local_timezone, pipeline, error, emitted, env_file, gen, courses,
                   pick>>

\* Choice "5" of main
Exit ==
    /\ pc = "menu"
    /\ choice' = "5"
    /\ pc' = "exited"
    /\ UNCHANGED <<impl, local_timezone, pipeline, error, emitted, env_file, environ, gen,
                   courses, pick>>

\* Any other input at the menu
InvalidChoice ==
    /\ pc = "menu"
    /\ choice' = "x"
    /\ UNCHANGED <<impl, local_timezone, pipeline, pc, error, emitted, env_file, environ, gen,
                   courses, pick>>

\* _load_environment of syllabus-calendar.py calls exit(1) when os.getenv
\* gives a falsy value for one of the three names.
MissingEnv(env) == {k \in Keys : ~Truthy(env[k])}

\* run_canvas_flow from the time zone prompt to the course prompt: the
\* generator is constructed and the courses are listed.
EnterTimeZone ==
    /\ pc = "time_zone"
    /\ \E tz \in TimeZoneInputs : local_timezone' = IF tz = "" THEN "UTC" ELSE tz
    /\ IF impl = "syllabus" /\ MissingEnv(environ) # {}
       THEN /\ pc' = "ended"
            /\ error' = "exit"
            /\ UNCHANGED <<gen, courses>>
       ELSE /\ gen' = [k \in Keys |-> Getenv(environ, k)]
            /\ \E listing \in CourseListings(gen') :
                  /\ courses' = listing
                  /\ pc' = IF listing = <<>> THEN "menu" ELSE "select"
            /\ UNCHANGED error
    /\ UNCHANGED <<impl, pipeline, emitted, env_file, environ, choice, pick>>

\* One turn of the loop of run_canvas_flow.  process_course(c) reads
\* course.name first, and again in its handler: for a course without that
\* attribute the handler raises, and nothing above it catches an
\* AttributeError.
PickCourse ==
    /\ pc = "select"
    /\ \E p \in Picks :
          /\ pick' = p
          /\ LET idx == ParseInt(p)
             IN  IF ~idx.ok
                 THEN UNCHANGED <<pc, error, emitted>>
                 ELSE IF idx.val = 0
                 THEN pc' = "menu" /\ UNCHANGED <<error, emitted>>
                 ELSE IF 1 <= idx.val /\ idx.val <= Len(courses)
                 THEN IF courses[idx.val].name = None
                      THEN pc' = "ended" /\ error' = "escaped" /\ UNCHANGED emitted
                      ELSE /\ \E o \in CourseOutcomes : error' = o.error /\ emitted' = o.emitted
                           /\ UNCHANGED pc
                 ELSE UNCHANGED <<pc, error, emitted>>
    /\ UNCHANGED <<impl, local_timezone, pipeline, env_file, environ, gen, courses, choice>>

\* ------------------------------------------------------------ specification
\* The model process_course is followed with: n1 resembles the assignment
\* names more than n2 does.
CourseModels ==
    {t \in SimilarityTables : t[<<"hw">>, <<"n1">>] = 2 /\ t[<<"hw">>, <<"n2">>] = 1}

\* Only syllabus-calendar.py reads the system's zone.
SystemZones(program) == IF program = "syllabus" THEN {"UTC", "Asia/Kolkata"} ELSE {"UTC"}

Init ==
    /\ impl \in {"canvas", "syllabus"}
    /\ local_timezone \in Zones
    /\ system_zone \in SystemZones(impl)
    /\ nlp \in CourseModels
    /\ Idle
    /\ InFlow

Next ==
    \/ FetchAssignments
    \/ CheckSyllabusBody
    \/ GetFrontPageText
    \/ ListFiles
    \/ FileStep
    \/ DownloadAttempt
    \/ AfterDownload
    \/ ListModules
    \/ ModuleStep
    \/ ItemStep
    \/ ParseStep
    \/ ExtractorReply
    \/ Reconcile
    \/ PromptManual
    \/ ManualEntry
    \/ GenerateCalendar
    \/ ChooseMode
    \/ ManualEntrySyllabus
    \/ SearchCourseMaterials
    \/ SearchSyllabusIntegrated

Spec == Init /\ [][Next]_vars

\* syllabus-calendar.py's reconciler does not read the zone: it is followed
\* in one zone that is not UTC.  The other reconciler is followed in UTC and
\* in a zone whose end of day falls on the next UTC day.
ReconcileZones(program) ==
    IF program = "syllabus" THEN {"America/New_York"} ELSE {"UTC", "America/New_York"}

\* The reconciler alone, of either program, on every list of assignments and
\* every array of candidate records of the pools, under every model:
\* the state is that of process_course at the call of
\* _match_assignments_with_dates.

InitReconcile ==
    /\ impl \in {"canvas", "syllabus"}
    /\ local_timezone \in ReconcileZones(impl)
    /\ system_zone = "UTC"
    /\ nlp \in SimilarityTables
    /\ pc = "match"
    /\ error = "none"
    /\ assignments \in AssignmentLists
    /\ backend = assignments
    /\ syllabus_body = None
    /\ all_text = None
    /\ text_parts = <<>>
    /\ file_list = <<>>
    /\ file_idx = 0
    /\ text_chunks = <<>>
    /\ modules = 0
    /\ mod_idx = 0
    /\ items = <<>>
    /\ item_idx = 0
    /\ f_obj = NoFile
    /\ caller = "none"
    /\ attempt = 0
    /\ sleeps = 0
    /\ failures = 0
    /\ extracted = <<>>
    /\ fetches = {}
    /\ read = <<>>
    /\ gpt_calls = 1
    /\ gpt_request = None
    /\ gpt_data \in {JsonArray(l) : l \in CandidateLists}
    /\ gpt_response = Json(gpt_data)
    /\ best_item = <<>>
    /\ missing = <<>>
    /\ man_idx = 0
    /\ calendar = <<>>
    /\ emitted = "no"
    /\ InFlow

NextReconcile == Reconcile

SpecReconcile == InitReconcile /\ [][NextReconcile]_vars

\* The source cascade alone: _gather_additional_text is entered for a course
\* of one undated assignment whose inline description is blank, in the
\* default zone (the cascade reads neither the assignments nor the zone).
\* It is sequential code: a step that can be taken is taken.
InitCascade ==
    /\ impl = "canvas"
    /\ local_timezone = "UTC"
    /\ system_zone = "UTC"
    /\ nlp \in CourseModels
    /\ pc = "front_page"
    /\ error = "none"
    /\ assignments = <<Assignment(<<"hw">>, None, <<"orig">>)>>
    /\ backend = assignments
    /\ syllabus_body \in {<<>>, <<" ">>}
    /\ all_text = None
    /\ text_parts = <<>>
    /\ file_list = <<>>
    /\ file_idx = 0
    /\ text_chunks = <<>>
    /\ modules = 0
    /\ mod_idx = 0
    /\ items = <<>>
    /\ item_idx = 0
    /\ f_obj = NoFile
    /\ caller = "none"
    /\ attempt = 0
    /\ sleeps = 0
    /\ failures = 0
    /\ extracted = <<>>
    /\ fetches = {}
    /\ read = <<>>
    /\ gpt_calls = 0
    /\ gpt_request = None
    /\ gpt_response = NoResponse
    /\ gpt_data = EmptyList
    /\ best_item = <<>>
    /\ missing = <<>>
    /\ man_idx = 0
    /\ calendar = <<>>
    /\ emitted = "no"
    /\ InFlow

NextCascade ==
    \/ GetFrontPageText
    \/ ListFiles
    \/ FileStep
    \/ DownloadAttempt
    \/ AfterDownload
    \/ ListModules
    \/ ModuleStep
    \/ ItemStep

SpecCascade == InitCascade /\ [][NextCascade]_vars /\ WF_vars(NextCascade)

\* The session of either program, from the first display of the main menu:
\* asyncio.run(main()) in a fresh process, whose environment holds none of
\* the three names.  process_course is followed by its outcome alone.
InitSession ==
    /\ impl \in {"canvas", "syllabus"}
    /\ local_timezone = "UTC"
    /\ system_zone = "UTC"
    /\ nlp \in CourseModels
    /\ pc = "menu"
    /\ error = "none"
    /\ backend = <<>>
    /\ assignments = <<>>
    /\ syllabus_body = None
    /\ all_text = None
    /\ text_parts = <<>>
    /\ file_list = <<>>
    /\ file_idx = 0
    /\ text_chunks = <<>>
    /\ modules = 0
    /\ mod_idx = 0
    /\ items = <<>>
    /\ item_idx = 0
    /\ f_obj = NoFile
    /\ caller = "none"
    /\ attempt = 0
    /\ sleeps = 0
    /\ failures = 0
    /\ extracted = <<>>
    /\ fetches = {}
    /\ read = <<>>
    /\ gpt_calls = 0
    /\ gpt_request = None
    /\ gpt_response = NoResponse
    /\ gpt_data = EmptyList
    /\ best_item = <<>>
    /\ missing = <<>>
    /\ man_idx = 0
    /\ calendar = <<>>
    /\ emitted = "no"
    /\ env_file \in StoredFiles
    /\ environ = NoCredentials
    /\ gen = NoCredentials
    /\ courses = <<>>
    /\ choice = ""
    /\ pick = <<>>

NextSession ==
    \/ PromptForCredentials
    \/ LoadChoice
    \/ DeleteCredentials
    \/ StartFlow
    \/ Exit
    \/ InvalidChoice
    \/ EnterTimeZone
    \/ PickCourse

SpecSession == InitSession /\ [][NextSession]_vars

\* ------------------------------------------------------------- properties
\* Reconcile has acted: assignments is what it left of backend.
Reconciled == pc # "match"

Candidates == gpt_data.items

\* A candidate that may be selected for a: both names present and a
\* strictly positive similarity.
Eligible(a, item) ==
    /\ Truthy(a.name)
    /\ Truthy(item.name)
    /\ nlp[<<a.name, item.name>>] > 0

Score(a, item) == nlp[<<a.name, item.name>>]

\* C1: reconcile leaves the due instant and the description of every
\* assignment that carried a due instant when it started exactly as they
\* were, whatever the candidate records.
C1_DatedAssignmentsUntouched ==
    Reconciled =>
        /\ Len(assignments) = Len(backend)
        /\ \A i \in 1..Len(backend) :
              Truthy(backend[i].due_at) =>
                  /\ assignments[i].due_at = backend[i].due_at
                  /\ assignments[i].description = backend[i].description

\* A dated and an undated assignment of the same name were reconciled with
\* candidates that dated and described the undated one.
C1_Witness ==
    /\ Reconciled
    /\ \E i, k \in 1..Len(backend) :
          /\ Truthy(backend[i].due_at)
          /\ ~Truthy(backend[k].due_at)
          /\ backend[i].name = backend[k].name
          /\ Truthy(assignments[k].due_at)
          /\ assignments[k].description # backend[k].description

\* C2: within one run of process_course a due instant, once set by the
\* backend, the reconciler or manual entry, is never changed or cleared by a
\* later step; the list of assignments never shrinks.
C2_DueInstantSetOnce ==
    [][/\ Len(assignments') >= Len(assignments)
       /\ \A i \in 1..Len(assignments) :
             Truthy(assignments[i].due_at) =>
                 assignments'[i].due_at = assignments[i].due_at]_vars

\* A run ended with its calendar written after the backend dated one
\* assignment, the reconciler a second and manual entry a third.
C2_Witness ==
    /\ pc = "done"
    /\ emitted = "written"
    /\ Len(best_item) = Len(backend)
    /\ \E i, j, k \in 1..Len(backend) :
          /\ Truthy(backend[i].due_at)
          /\ assignments[i].due_at = backend[i].due_at
          /\ ~Truthy(backend[j].due_at) /\ best_item[j] # 0 /\ Truthy(assignments[j].due_at)
          /\ ~Truthy(backend[k].due_at) /\ best_item[k] = 0 /\ Truthy(assignments[k].due_at)

\* C3: for each undated assignment reconcile selects the candidate of the
\* highest similarity among those of strictly positive similarity, and of
\* several candidates of that similarity the first in the list; it selects
\* none when no candidate has a strictly positive similarity.
C3_FirstHighestPositive ==
    (Reconciled /\ error = "none") =>
        /\ Len(best_item) = Len(backend)
        /\ \A i \in 1..Len(backend) :
              LET a == backend[i]
                  b == best_item[i]
              IN  IF Truthy(a.due_at) THEN b = 0
                  ELSE IF \A j \in 1..Len(Candidates) : ~Eligible(a, Candidates[j]) THEN b = 0
                  ELSE /\ b \in 1..Len(Candidates)
                       /\ Eligible(a, Candidates[b])
                       /\ \A j \in 1..Len(Candidates) :
                             Eligible(a, Candidates[j]) =>
                                 Score(a, Candidates[j]) <= Score(a, Candidates[b])
                       /\ \A j \in 1..(b - 1) :
                             Eligible(a, Candidates[j]) =>
                                 Score(a, Candidates[j]) < Score(a, Candidates[b])

\* Two different candidates share the highest similarity and the first one
\* was selected and applied.
C3_Witness ==
    /\ Reconciled
    /\ \E i \in 1..Len(backend) :
          \E j, k \in 1..Len(Candidates) :
              /\ j < k
              /\ best_item[i] = j
              /\ Eligible(backend[i], Candidates[k])
              /\ Score(backend[i], Candidates[k]) = Score(backend[i], Candidates[j])
              /\ Candidates[k].name # Candidates[j].name
              /\ assignments[i] # backend[i]

\* C4: an assignment against which every candidate has a zero, negative or
\* absent similarity keeps its due instant and its description; when that
\* is so for every assignment, reconcile changes nothing.
C4_NoPositiveScoreNoUpdate ==
    Reconciled =>
        /\ \A i \in 1..Len(backend) :
              (\A j \in 1..Len(Candidates) : ~Eligible(backend[i], Candidates[j]))
                  => assignments[i] = backend[i]
        /\ (\A i \in 1..Len(backend) :
               \A j \in 1..Len(Candidates) : ~Eligible(backend[i], Candidates[j]))
              => assignments = backend

\* An undated, named assignment met a nameless candidate and a dated,
\* described candidate of similarity zero or less, and nothing better.
C4_Witness ==
    /\ Reconciled
    /\ \E i \in 1..Len(backend) :
          /\ ~Truthy(backend[i].due_at)
          /\ Truthy(backend[i].name)
          /\ \A j \in 1..Len(Candidates) : ~Eligible(backend[i], Candidates[j])
          /\ \E j \in 1..Len(Candidates) : ~Truthy(Candidates[j].name)
          /\ \E j \in 1..Len(Candidates) :
                /\ Truthy(Candidates[j].name)
                /\ Truthy(Candidates[j].due_date)
                /\ Truthy(Candidates[j].description)
                /\ Score(backend[i], Candidates[j]) <= 0

\* The steps of process_course of canvas_calendar_generator.py that follow
\* the choice of the corpus.
AfterCorpus == {"parse", "await_gpt", "match", "prompt", "manual", "calendar", "done"}

\* C5: in canvas_calendar_generator.py a non-blank inline description is
\* the corpus, and the text handed to the extractor, exactly; neither before
\* nor after that is the landing page, a course file or a module fetched.
C5_InlineDescriptionAlone ==
    /\ [](( /\ impl = "canvas"
            /\ pc \in {"parse", "await_gpt"}
            /\ syllabus_body # None
            /\ Strip(syllabus_body) # <<>> )
          => /\ fetches = {}
             /\ all_text = syllabus_body
             /\ pc = "await_gpt" => gpt_request = syllabus_body /\ gpt_calls = 1)
    /\ [][(impl = "canvas" /\ pc \in AfterCorpus) => fetches' = fetches]_vars

\* The extractor was called with the inline description of the course.
C5_Witness ==
    /\ impl = "canvas"
    /\ pc = "await_gpt"
    /\ Strip(syllabus_body) # <<>>
    /\ gpt_request = <<"S">>

\* The corpus is gathered and is empty or whitespace only.
Blank(text) == text # None /\ Strip(text) = <<>>

\* C6: in canvas_calendar_generator.py an empty or whitespace-only corpus
\* is never handed to the extractor, and reconcile then leaves every
\* assignment as the backend gave it.
C6_BlankCorpusNoExtraction ==
    (impl = "canvas" /\ pc \in AfterCorpus /\ Blank(all_text)) =>
        /\ gpt_calls = 0
        /\ pc # "await_gpt"
        /\ gpt_response = NoResponse
        /\ gpt_data = EmptyList
        /\ pc \notin {"parse", "match"} => \A i \in 1..Len(best_item) : best_item[i] = 0
        /\ pc = "prompt" => assignments = backend

\* Reconcile has acted on an undated, named assignment after a cascade that
\* gathered whitespace only.
C6_Witness ==
    /\ impl = "canvas"
    /\ pc = "prompt"
    /\ all_text = <<" ">>
    /\ fetches # {}
    /\ \E i \in 1..Len(assignments) :
          ~Truthy(assignments[i].due_at) /\ Truthy(assignments[i].name)

\* C7: _download_and_extract_file makes at most Retries attempts, numbered
\* from 1, and stops at the first that does not raise; it has slept once
\* between two attempts and never after the last; when every attempt raised
\* it returns "" and the caller goes on with the next file.  Each step of
\* the loop either leaves it or starts the next attempt, and the loop ends.
C7_BoundedRetry ==
    /\ [](/\ pc = "download" =>
               /\ attempt \in 1..Retries
               /\ failures = attempt - 1
               /\ sleeps = attempt - 1
          /\ pc = "downloaded" =>
               /\ attempt \in 1..Retries
               /\ sleeps = attempt - 1
               /\ failures \in {attempt - 1, attempt}
               /\ failures = attempt => (attempt = Retries /\ extracted = <<>>)
               /\ failures = attempt - 1 => extracted = ExtractedText(f_obj))
    /\ [][/\ pc = "download" =>
               \/ pc' = "downloaded" /\ attempt' = attempt
               \/ pc' = "download" /\ attempt' = attempt + 1 /\ failures' = failures + 1
          /\ pc = "downloaded" =>
               /\ error' = "none"
               /\ caller = "files" => (pc' = "files" /\ file_idx' = file_idx + 1)
               /\ caller = "modules" => (pc' = "items" /\ item_idx' = item_idx + 1)
               /\ failures = attempt => text_chunks' = text_chunks]_vars
    /\ (pc = "download") ~> (pc = "downloaded")

\* Every attempt to download a course file raised, and the caller has gone
\* on to the file after it.
C7_Witness ==
    /\ pc = "download"
    /\ caller = "files"
    /\ file_idx = 2
    /\ Len(text_chunks) = 0
    /\ IsRelevant(file_list[1])
    /\ ExtractedText(file_list[1]) # <<>>

\* The fetches of the source cascade.
CascadeFetches ==
    {"get_page", "get_files", "get_contents", "get_modules", "get_module_items", "get_file"}

\* C8: no fetch of the source cascade ends process_course: the exception
\* process_course catches, if any, was not raised by one of them.
C8_FetchErrorsContained == error \notin CascadeFetches

\* The reply of the extraction backend is a failure, prose, or JSON that is
\* not an array of records.
Malformed(resp) ==
    \/ resp.status \in {"error", "text"}
    \/ /\ resp.status = "json"
       /\ \/ resp.value.kind # "array"
          \/ \E i \in 1..Len(resp.value.items) : ~resp.value.items[i].isdict

\* C9: in canvas_calendar_generator.py a failed or malformed reply of the
\* extraction backend raises nothing in reconcile, so that process_course
\* goes on to the calendar.
C9_ExtractionFailureContained ==
    (impl = "canvas" /\ Malformed(gpt_response)) => error # "reconcile"

\* 23:59:00 of the date date_str in zone, as the UTC instant in canonical form.
EndOfDayUtc(date_str, zone) ==
    FormatUtc(LocalToUtc([Strptime(date_str, FmtIso).dt EXCEPT !.H = 23, !.M = 59], zone))

\* C10: the due instant reconcile stores for a candidate's YYYY-MM-DD date
\* is the UTC instant of 23:59:00 of that date in the configured local
\* zone, in either program.
C10_EndOfLocalDay ==
    (Reconciled /\ error = "none") =>
        \A i \in 1..Len(backend) :
            ( /\ ~Truthy(backend[i].due_at)
              /\ best_item[i] # 0
              /\ Truthy(Candidates[best_item[i]].due_date)
              /\ Strptime(Candidates[best_item[i]].due_date, FmtIso).ok )
            => assignments[i].due_at =
                   EndOfDayUtc(Candidates[best_item[i]].due_date, local_timezone)

\* 23:59:00 of the date date_str, written in either accepted form, in zone,
\* as the UTC instant in canonical form.
ResolvedEndOfDay(date_str, zone) ==
    FormatUtc(LocalToUtc([TryParseDate(date_str).dt EXCEPT !.H = 23, !.M = 59], zone))

\* The candidate reconcile selected for assignment i, when it selected one.
Best(i) == Candidates[best_item[i]]

\* Assignment i was undated and reconcile selected a candidate with a due
\* date for it.
DateApplied(i) ==
    /\ ~Truthy(backend[i].due_at)
    /\ best_item[i] # 0
    /\ Truthy(Best(i).due_date)

\* C11: in canvas_calendar_generator.py the reconciler resolves a candidate
\* due date written as YYYY-MM-DD or as MM/DD/YYYY to 23:59:00 of that date
\* in the local zone, as manual entry does.
C11_BothFormsResolved ==
    (impl = "canvas" /\ Reconciled /\ error = "none") =>
        \A i \in 1..Len(backend) :
            (DateApplied(i) /\ TryParseDate(Best(i).due_date).ok)
                => assignments[i].due_at = ResolvedEndOfDay(Best(i).due_date, local_timezone)

RECURSIVE DatedFrom(_, _)
DatedFrom(as, i) ==
    IF i > Len(as) THEN <<>>
    ELSE IF Truthy(as[i].due_at) THEN <<i>> \o DatedFrom(as, i + 1)
    ELSE DatedFrom(as, i + 1)

Dated == DatedFrom(assignments, 1)

\* canvas_calendar_generator.py has written the calendar of the course.
CalendarWritten == impl = "canvas" /\ pc = "done" /\ emitted = "written"

\* C13: the calendar _generate_calendar of canvas_calendar_generator.py
\* writes has one entry per assignment with a due instant, in the order of
\* the assignments, titled "<courseName> - <assignmentName>" and described
\* as the assignment is, and no other entry.
C13_OneEntryPerDatedAssignment ==
    CalendarWritten =>
        /\ Len(calendar) = Len(Dated)
        /\ \A k \in 1..Len(Dated) :
              LET a == assignments[Dated[k]]
              IN  /\ calendar[k].summary =
                         <<"Course">> \o <<" - ">>
                             \o (IF a.name = None THEN <<"None">> ELSE a.name)
                  /\ calendar[k].description =
                         IF Truthy(a.description) THEN a.description ELSE <<>>
                  /\ FormatUtc(LocalToUtc(calendar[k].dtstart, local_timezone)) = a.due_at

\* The calendar holds the entries of a first and a third assignment, of
\* different titles and dated by the backend and by hand, around a second
\* that is undated.
C13_Witness ==
    /\ CalendarWritten
    /\ Len(calendar) = 2
    /\ calendar[1].summary # calendar[2].summary
    /\ \E i, j, k \in 1..Len(assignments) :
          /\ i < j /\ j < k
          /\ Truthy(backend[i].due_at)
          /\ ~Truthy(assignments[j].due_at)
          /\ ~Truthy(backend[k].due_at) /\ Truthy(assignments[k].due_at)

\* end is the wall clock one hour after start.
OneHourLater(start, end) ==
    IF start.H < 23
    THEN end = [start EXCEPT !.H = start.H + 1]
    ELSE end = [NextDay(start) EXCEPT !.H = 0]

\* C14: in canvas_calendar_generator.py the entry of an assignment starts at
\* the assignment's due instant expressed in the configured zone, carries
\* that zone, and ends one hour later; the entry of an assignment the
\* reconciler dated starts at 23:59 of the candidate's date.
C14_RoundTrip ==
    CalendarWritten =>
        /\ Len(calendar) = Len(Dated)
        /\ \A k \in 1..Len(Dated) :
              LET i == Dated[k]
                  e == calendar[k]
              IN  /\ FormatUtc(LocalToUtc(e.dtstart, local_timezone)) = assignments[i].due_at
                  /\ e.tzid = local_timezone
                  /\ OneHourLater(e.dtstart, e.dtend)
                  /\ (i <= Len(best_item) /\ DateApplied(i)) =>
                         e.dtstart = [Strptime(Best(i).due_date, FmtIso).dt
                                         EXCEPT !.H = 23, !.M = 59]

\* In a zone other than UTC the calendar holds the entry of an assignment
\* the reconciler dated 2025-09-01, from 23:59 that day to 00:59 the next,
\* and the entry of one dated by hand.
C14_Witness ==
    /\ CalendarWritten
    /\ local_timezone # "UTC"
    /\ \E k, l \in 1..Len(calendar) :
          /\ k # l
          /\ Dated[k] <= Len(best_item)
          /\ DateApplied(Dated[k])
          /\ calendar[k].dtstart = DateTime(2025, 9, 1, 23, 59, 0)
          /\ calendar[k].dtend = DateTime(2025, 9, 2, 0, 59, 0)
          /\ ~Truthy(backend[Dated[l]].due_at)
          /\ best_item[Dated[l]] = 0

\* The course prompt was answered with 0.
PickedZero == ParseInt(pick).ok /\ ParseInt(pick).val = 0

\* C15: in the course-selection loop of run_canvas_flow every turn comes back
\* to the course prompt, whatever happened to the selected course and
\* whatever was typed, except that the answer 0 leaves the loop for the main
\* menu; and no failure ends the session: the process is never terminated
\* other than by the menu's Exit.
C15_CourseLoopSurvives ==
    /\ [][pc = "select" => (pc' = "select" \/ (pc' = "menu" /\ PickedZero'))]_vars
    /\ [](pc # "ended")

\* A credential is absent: there is no .env file, or one of the three names
\* has a value neither in the file nor in the environment.
CredentialsAbsent ==
    \/ ~env_file.exists
    \/ \E k \in Keys : ~Truthy(env_file.vals[k]) /\ ~Truthy(environ[k])

\* C16: while a credential is absent, "Start Canvas Calendar Flow" does not
\* bring the session to the course flow's course selection and does not end
\* the process.
C16_AbsentCredentialsNoFlow == CredentialsAbsent => pc \notin {"select", "ended"}

\* A candidate without a usable name or without a usable due date: the name
\* or the date is absent or empty, or the date is in neither accepted form.
Unusable(item) ==
    \/ ~Truthy(item.name)
    \/ ~Truthy(item.due_date)
    \/ ~TryParseDate(item.due_date).ok

Remove(q, j) == SubSeq(q, 1, j - 1) \o SubSeq(q, j + 1, Len(q))

\* C17: a candidate without a usable name or due date is inert: the
\* reconciler of canvas_calendar_generator.py leaves every assignment as it
\* would have left it had that candidate not been in the list.
C17_UnusableCandidateInert ==
    (impl = "canvas" /\ Reconciled /\ error = "none") =>
        \A j \in 1..Len(Candidates) :
            Unusable(Candidates[j]) =>
                assignments = MatchAssignmentsWithDates(backend, JsonArray(Remove(Candidates, j)),
                                                        nlp, local_timezone, impl).assignments

\* The cascade has returned its corpus to process_course.
Gathered == impl = "canvas" /\ pc = "parse" /\ fetches # {}

\* The text a source obtained gives: the page's body, or what the extractor
\* chosen for the file yields.
Fragment(e) == IF e.source = "page" THEN e.body ELSE ExtractedText(e.file)

RECURSIVE NonEmpty(_)
NonEmpty(q) ==
    IF q = <<>> THEN <<>>
    ELSE IF Head(q) = <<>> THEN NonEmpty(Tail(q))
    ELSE <<Head(q)>> \o NonEmpty(Tail(q))

SourceRank(e) == CASE e.source = "page" -> 1 [] e.source = "files" -> 2 [] e.source = "modules" -> 3

RECURSIVE IsSubSeq(_, _)
IsSubSeq(q, of) ==
    IF q = <<>> THEN TRUE
    ELSE IF of = <<>> THEN FALSE
    ELSE IF Head(q) = Head(of) THEN IsSubSeq(Tail(q), Tail(of))
    ELSE IsSubSeq(q, Tail(of))

RECURSIVE FilesFrom(_, _)
FilesFrom(q, source) ==
    IF q = <<>> THEN <<>>
    ELSE IF Head(q).source = source THEN <<Head(q).file>> \o FilesFrom(Tail(q), source)
    ELSE FilesFrom(Tail(q), source)

\* C18: the corpus the cascade returns is determined by the sources it
\* obtained, in the fixed source order: it is the blank-line join of their
\* non-empty texts, landing page first, then the course files in listing
\* order, then the module files; and what a download contributes is the
\* file's extracted text if an attempt succeeded and nothing otherwise,
\* whichever attempt that was.
C18_CorpusDeterminedBySources ==
    /\ Gathered =>
          /\ all_text = Join(BlankLine, NonEmpty([i \in 1..Len(read) |-> Fragment(read[i])]))
          /\ \A i, j \in 1..Len(read) : i < j => SourceRank(read[i]) <= SourceRank(read[j])
    /\ (impl = "canvas" /\ pc = "files") =>
          IsSubSeq(FilesFrom(read, "files"), SubSeq(file_list, 1, file_idx - 1))
    /\ (impl = "canvas" /\ pc = "downloaded") =>
          extracted = IF failures < attempt THEN ExtractedText(f_obj) ELSE <<>>

\* The cascade returned a corpus of three fragments, one from each kind of
\* source, the two files giving different texts.
C18_Witness ==
    /\ Gathered
    /\ Len(read) = 3
    /\ {read[i].source : i \in 1..3} = {"page", "files", "modules"}
    /\ Len(NonEmpty([i \in 1..3 |-> Fragment(read[i])])) = 3
    /\ Fragment(read[2]) # Fragment(read[3])

\* The text of a source as C19 has it: for a file, the text of its contents
\* extracted as its matched extension indicates.
ContentText(e) == IF e.source = "page" THEN e.body ELSE e.file.text

\* C19: with a blank inline description the corpus is the blank-line join,
\* in source order, of the non-empty texts of the landing page and of every
\* file passing the filter that was downloaded, each contributing the text
\* of its contents; a file failing the filter is not downloaded.
C19_CorpusOfFilteredSources ==
    /\ Gathered =>
          all_text = Join(BlankLine, NonEmpty([i \in 1..Len(read) |-> ContentText(read[i])]))
    /\ (impl = "canvas" /\ pc \in {"download", "downloaded"}) => IsRelevant(f_obj)

\* C20: whatever is typed for one assignment during manual gap-fill, the
\* due instants already set are kept and process_course stays in gap-fill
\* for the remaining assignments or goes on to emit the calendar.
C20_BadEntryContained ==
    [][(impl = "canvas" /\ pc = "manual") =>
          /\ pc' \in {"manual", "calendar"}
          /\ \A i \in 1..Len(assignments) :
                Truthy(assignments[i].due_at) => assignments'[i].due_at = assignments[i].due_at]_vars

\* _handle_manual_dates of canvas_calendar_generator.py is prompting for the
\* assignment at man_idx.
InGapFill == impl = "canvas" /\ pc = "manual" /\ man_idx <= Len(missing)

\* An hour or minute input that int() reads, or a blank one, and the hour
\* and the minute it stands for.
Numeric(str) == str = <<>> \/ ParseInt(str).ok
HourOf(str) == IF str = <<>> THEN 23 ELSE ParseInt(str).val
MinuteOf(str) == IF str = <<>> THEN 59 ELSE ParseInt(str).val

\* The due instant of the date dt_str at hour:minute in zone.
ResolvedAt(dt_str, hour, minute, zone) ==
    FormatUtc(LocalToUtc([TryParseDate(dt_str).dt EXCEPT !.H = hour, !.M = minute], zone))

\* C21: in manual entry a blank date skips the assignment; a numeric hour
\* outside 0..23 or minute outside 0..59 is rejected and the same assignment
\* is prompted again; a due instant is stored only from an hour in 0..23 and
\* a minute in 0..59; a date with blank hour and minute gives 23:59 of that
\* date in the configured zone.  A turn of the loop leaves the assignments
\* as they are, on the same assignment or on the next one, or abandons the
\* course, or stores for the assignment prompted the instant of a typed
\* date at an hour and a minute in range.
C21_ManualEntryInRange ==
    /\ [](InGapFill =>
          \A d \in ManualDates, h \in HourInputs, m \in MinuteInputs :
              LET turn == ManualTurn(d, h, m, local_timezone)
              IN  /\ d = <<>> => turn.kind = "skip"
                  /\ ( /\ d # <<>> /\ TryParseDate(d).ok /\ Numeric(h) /\ Numeric(m)
                       /\ (HourOf(h) \notin 0..23 \/ MinuteOf(m) \notin 0..59) )
                        => turn.kind = "again"
                  /\ turn.kind = "set" => (HourOf(h) \in 0..23 /\ MinuteOf(m) \in 0..59)
                  /\ (d # <<>> /\ TryParseDate(d).ok /\ h = <<>> /\ m = <<>>)
                        => (turn.kind = "set" /\ turn.due_at = ResolvedAt(d, 23, 59, local_timezone)))
    /\ [][InGapFill =>
            \/ pc' = "manual" /\ man_idx' \in {man_idx, man_idx + 1} /\ assignments' = assignments
            \/ pc' = "done" /\ assignments' = assignments
            \/ /\ pc' = "manual"
               /\ man_idx' = man_idx + 1
               /\ \E d \in ManualDates, h \in HourInputs, m \in MinuteInputs :
                     /\ d # <<>> /\ TryParseDate(d).ok /\ Numeric(h) /\ Numeric(m)
                     /\ HourOf(h) \in 0..23 /\ MinuteOf(m) \in 0..59
                     /\ assignments' =
                          [assignments EXCEPT ![missing[man_idx]].due_at =
                              ResolvedAt(d, HourOf(h), MinuteOf(m), local_timezone)]]_vars

\* Manual entry stored 23:59 of 2025-12-31, New York time, for the first
\* assignment it was handed, and is prompting for the second.
C21_Witness ==
    /\ InGapFill
    /\ local_timezone = "America/New_York"
    /\ man_idx = 2
    /\ assignments[missing[1]].due_at = FormatUtc(DateTime(2026, 1, 1, 4, 59, 0))

\* C22: in the reconciler of either program an assignment takes the
\* description of its best candidate if and only if that description is
\* non-empty; with an absent or empty one, and without a best candidate, it
\* keeps its own, whether or not a due date is applied.
C22_DescriptionRule ==
    Reconciled =>
        \A i \in 1..Len(backend) :
            assignments[i].description =
                IF /\ ~Truthy(backend[i].due_at)
                   /\ i <= Len(best_item)
                   /\ best_item[i] # 0
                   /\ Truthy(Best(i).description)
                THEN Best(i).description
                ELSE backend[i].description

\* In syllabus-calendar.py an assignment was dated from a candidate whose
\* description is the empty string, and kept its own description.
C22_Witness ==
    /\ Reconciled
    /\ \E i \in 1..Len(backend) :
          /\ DateApplied(i)
          /\ Best(i).description = <<>>
          /\ Truthy(backend[i].description)
          /\ assignments[i].description = backend[i].description
          /\ Truthy(assignments[i].due_at)
          /\ impl = "syllabus"

\* C23: every due instant the reconciler of either program leaves on an
\* assignment is in the form YYYY-MM-DDTHH:MM:SSZ, so that the calendar
\* emitter has one event for each assignment with a due instant.
C23_CanonicalDueInstants ==
    Reconciled =>
        /\ \A i \in 1..Len(assignments) :
              Truthy(assignments[i].due_at) => Strptime(assignments[i].due_at, FmtCanonical).ok
        /\ Len(Events(assignments, local_timezone)) = Len(Dated)

\* The value the credentials file stores under a name, "" when it has no
\* such line.
Stored(k) == IF env_file.vals[k] = None THEN <<>> ELSE env_file.vals[k]

\* C24: whenever the course flow of main.py runs, the generator was
\* constructed with the three values the credentials file stores, whatever
\* menu choices came before.
C24_GeneratorFromStoredCredentials ==
    (impl = "canvas" /\ pc = "select") => \A k \in Keys : gen[k] = Stored(k)
====
